---------------------------- MODULE Spec2Model ----------------------------
(***************************************************************************)
(* Model of src/app.py (Maintenance Email Generator): the TSV parser, the  *)
(* identifier classifier, the time helpers and the email builder.          *)
(*                                                                         *)
(* A Python str is a sequence of one-character strings, so that strip,    *)
(* upper, startswith, "in", split, strptime and strftime are computed     *)
(* character by character.  None is the empty tuple << >> and a present    *)
(* optional value v is the one-element tuple <<v>>.                        *)
(***************************************************************************)
EXTENDS Integers, Sequences, FiniteSets, TLC

VARIABLES
    pc,                 \* position in the function the specification runs
    \* parse_uploaded_tsv
    content,            \* decoded text of the upload
    lines,              \* kept lines (app.py 31-41)
    rows,               \* csv.reader rows (app.py 43)
    header_row,         \* None or <<i>>
    cid_idx,            \* None or <<i>> before the defaults, then <<i>>
    label_idx,
    parsed,             \* the returned list of (cid, label)
    raised,             \* an exception escaped the function
    \* classify_wl_oc_3poc
    pairs,              \* the argument: list of (cid, label)
    pos,                \* records consumed by the for loop
    wl_wlp, oc_list, poc3_list,   \* the three Python sets
    placed,             \* branch taken by each consumed record
    classified,         \* None or <<the returned triple of sorted lists>>
    \* humanize_minutes
    mins,               \* the argument: None or <<n>>
    rendered,           \* None or <<the returned str>>
    \* build_email
    form,               \* jira_ref, pop, equipment, line, purposes
    start_date, start_time, end_date, end_time, utc_single,
    override_downtime,
    start_utc, end_utc, \* None or <<minutes since 1970-01-01 00:00 UTC>>
    calc_downtime_mins, \* None or <<n>>
    downtime_final,
    subject, body,
    calculated_downtime,
    previous            \* None or <<calculated_downtime of the previous call>>

parserVars == <<content, lines, rows, header_row, cid_idx, label_idx, parsed,
                raised>>
classifierVars == <<pairs, pos, wl_wlp, oc_list, poc3_list, placed, classified>>
humanizeVars == <<mins, rendered>>
inputVars == <<form, start_date, start_time, end_date, end_time, utc_single,
               override_downtime>>
emailVars == <<start_utc, end_utc, calc_downtime_mins, downtime_final, subject,
               body, calculated_downtime, previous>>
vars == <<pc, parserVars, classifierVars, humanizeVars, inputVars, emailVars>>

None == << >>
Some(v) == <<v>>
Val(o) == o[1]

-----------------------------------------------------------------------------
(* Characters and str methods *)

\* The printable ASCII characters in code-point order, from code 32 (the
\* grave accent, code 96, is not a character the lexer takes: a placeholder
\* keeps its place).
Printable ==
    <<" ", "!", "\"", "#", "$", "%", "&", "'", "(", ")", "*", "+", ",", "-",
      ".", "/", "0", "1", "2", "3", "4", "5", "6", "7", "8", "9", ":", ";",
      "<", "=", ">", "?", "@", "A", "B", "C", "D", "E", "F", "G", "H", "I",
      "J", "K", "L", "M", "N", "O", "P", "Q", "R", "S", "T", "U", "V", "W",
      "X", "Y", "Z", "[", "\\", "]", "^", "_", "<grave>", "a", "b", "c", "d", "e",
      "f", "g", "h", "i", "j", "k", "l", "m", "n", "o", "p", "q", "r", "s",
      "t", "u", "v", "w", "x", "y", "z", "{", "|", "}", "~">>

Chars == {Printable[i] : i \in 1..Len(Printable)} \cup {"\t", "\n", "\r"}

\* ord(c)
OrdTable ==
    [c \in Chars |->
        IF c = "\t" THEN 9
        ELSE IF c = "\n" THEN 10
        ELSE IF c = "\r" THEN 13
        ELSE 31 + (CHOOSE i \in 1..Len(Printable) : Printable[i] = c)]

Ord(c) == OrdTable[c]

Chr(n) == Printable[n - 31]

IsSpace(c) == c \in {" ", "\t", "\n", "\r"}
IsDigit(c) == c \in {"0", "1", "2", "3", "4", "5", "6", "7", "8", "9"}

UpperTable ==
    [c \in Chars |-> IF Ord(c) >= 97 /\ Ord(c) <= 122 THEN Chr(Ord(c) - 32) ELSE c]
LowerTable ==
    [c \in Chars |-> IF Ord(c) >= 65 /\ Ord(c) <= 90 THEN Chr(Ord(c) + 32) ELSE c]

UpperChar(c) == UpperTable[c]
LowerChar(c) == LowerTable[c]

Upper(s) == [i \in 1..Len(s) |-> UpperChar(s[i])]
Lower(s) == [i \in 1..Len(s) |-> LowerChar(s[i])]

RECURSIVE LStrip(_)
LStrip(s) == IF s # << >> /\ IsSpace(Head(s)) THEN LStrip(Tail(s)) ELSE s

RECURSIVE RStrip(_)
RStrip(s) ==
    IF s # << >> /\ IsSpace(s[Len(s)]) THEN RStrip(SubSeq(s, 1, Len(s) - 1))
    ELSE s

Strip(s) == RStrip(LStrip(s))

RECURSIVE LStripChar(_, _)
LStripChar(s, c) ==
    IF s # << >> /\ Head(s) = c THEN LStripChar(Tail(s), c) ELSE s

StartsWith(s, p) == Len(p) <= Len(s) /\ SubSeq(s, 1, Len(p)) = p

\* p in s
Contains(s, p) ==
    \E i \in 0..(Len(s) - Len(p)) : SubSeq(s, i + 1, i + Len(p)) = p

\* lexicographic order of str by code point
RECURSIVE StrLess(_, _)
StrLess(a, b) ==
    IF b = << >> THEN FALSE
    ELSE IF a = << >> THEN TRUE
    ELSE IF Head(a) = Head(b) THEN StrLess(Tail(a), Tail(b))
    ELSE Ord(Head(a)) < Ord(Head(b))

\* s.split(sep) for a one-character separator
Split(s, sep) ==
    LET at == {i \in 1..Len(s) : s[i] = sep}
        n == Cardinality(at)
        \* position of the k-th separator; 0 and Len(s) + 1 bracket the text
        cut(k) == IF k = 0 THEN 0
                  ELSE IF k = n + 1 THEN Len(s) + 1
                  ELSE CHOOSE i \in at : Cardinality({j \in at : j < i}) = k - 1
    IN  [k \in 1..(n + 1) |-> SubSeq(s, cut(k - 1) + 1, cut(k) - 1)]

\* s.replace(old, "")
RECURSIVE Remove(_, _)
Remove(s, old) ==
    IF s = << >> THEN << >>
    ELSE IF StartsWith(s, old) THEN Remove(SubSeq(s, Len(old) + 1, Len(s)), old)
    ELSE <<Head(s)>> \o Remove(Tail(s), old)

\* sep.join(parts)
RECURSIVE Join(_, _)
Join(parts, sep) ==
    IF parts = << >> THEN << >>
    ELSE IF Len(parts) = 1 THEN parts[1]
    ELSE parts[1] \o sep \o Join(Tail(parts), sep)

\* [x for x in parts if x]
RECURSIVE NonEmpty(_)
NonEmpty(parts) ==
    IF parts = << >> THEN << >>
    ELSE IF Head(parts) = << >> THEN NonEmpty(Tail(parts))
    ELSE <<Head(parts)>> \o NonEmpty(Tail(parts))

\* The characters of s as one TLA+ string, for reading a result.
RECURSIVE Text(_)
Text(s) ==
    IF s = << >> THEN ""
    ELSE IF Len(s) = 1 THEN s[1]
    ELSE LET mid == Len(s) \div 2
         IN  Text(SubSeq(s, 1, mid)) \o Text(SubSeq(s, mid + 1, Len(s)))

Range(f) == {f[i] : i \in DOMAIN f}

-----------------------------------------------------------------------------
(* classify_wl_oc_3poc, app.py 73-88 *)

OC900001 == <<"O", "C", "-", "9", "0", "0", "0", "0", "1">>
WLPdash == <<"W", "L", "P", "-">>
WLdash == <<"W", "L", "-">>
POC3 == <<"3", "P", "O", "C">>
OC == <<"O", "C">>

Cid(rec) == rec[1]
Label(rec) == rec[2]

\* f"{cid} ({label})" if label else cid
Display(rec) ==
    IF Label(rec) # << >> THEN Cid(rec) \o <<" ", "(">> \o Label(rec) \o <<")">>
    ELSE Cid(rec)

\* Mutant: the exclusion test compares the identifier as typed.
CategoryCaseSensitive(cid) ==
    LET up == Upper(cid) IN
    IF StartsWith(cid, OC900001) THEN "excluded"
    ELSE IF Contains(up, WLPdash) \/ Contains(up, WLdash) THEN "WL/WLP"
    ELSE IF StartsWith(up, POC3) THEN "3POC"
    ELSE IF StartsWith(up, OC) THEN "OC"
    ELSE "dropped"

\* Mutant: the prefix tests run before the WL-/WLP- test.
CategoryPrefixFirst(cid) ==
    LET up == Upper(cid) IN
    IF StartsWith(up, OC900001) THEN "excluded"
    ELSE IF StartsWith(up, POC3) THEN "3POC"
    ELSE IF StartsWith(up, OC) THEN "OC"
    ELSE IF Contains(up, WLPdash) \/ Contains(up, WLdash) THEN "WL/WLP"
    ELSE "dropped"

\* The branch of the loop body a record takes.
Category(cid) ==
    LET up == Upper(cid) IN
    IF StartsWith(up, OC900001) THEN "excluded"
    ELSE IF Contains(up, WLPdash) \/ Contains(up, WLdash) THEN "WL/WLP"
    ELSE IF StartsWith(up, POC3) THEN "3POC"
    ELSE IF StartsWith(up, OC) THEN "OC"
    ELSE "dropped"

\* One iteration of the for loop on the three sets.
ClassifyOne(sets, rec) ==
    LET cat == Category(Cid(rec)) IN
    [ wl   |-> IF cat = "WL/WLP" THEN sets.wl \cup {Cid(rec)} ELSE sets.wl,
      oc   |-> IF cat = "OC" THEN sets.oc \cup {Display(rec)} ELSE sets.oc,
      poc3 |-> IF cat = "3POC" THEN sets.poc3 \cup {Display(rec)}
               ELSE sets.poc3 ]

\* Mutant: sorted(..., reverse=True).
RECURSIVE SortedDescending(_)
SortedDescending(S) ==
    IF S = {} THEN << >>
    ELSE LET hi == CHOOSE x \in S : \A y \in S : y = x \/ StrLess(y, x)
         IN  <<hi>> \o SortedDescending(S \ {hi})

\* sorted(S) for a set of str
RECURSIVE Sorted(_)
Sorted(S) ==
    IF S = {} THEN << >>
    ELSE LET lo == CHOOSE x \in S : \A y \in S : y = x \/ StrLess(x, y)
         IN  <<lo>> \o Sorted(S \ {lo})

RECURSIVE ClassifyAll(_, _)
ClassifyAll(sets, recs) ==
    IF recs = << >> THEN sets
    ELSE ClassifyAll(ClassifyOne(sets, Head(recs)), Tail(recs))

EmptySets == [wl |-> {}, oc |-> {}, poc3 |-> {}]

\* The whole function, as build_email calls it.
Classify(recs) ==
    LET s == ClassifyAll(EmptySets, recs)
    IN  <<Sorted(s.wl), Sorted(s.oc), Sorted(s.poc3)>>

-----------------------------------------------------------------------------
(* Time helpers, app.py 92-131 *)

IsDigits(s) == s # << >> /\ \A i \in 1..Len(s) : IsDigit(s[i])

DigitVal(c) == Ord(c) - 48

\* int(s) for a run of decimal digits
RECURSIVE DigitsValue(_)
DigitsValue(s) ==
    IF s = << >> THEN 0
    ELSE 10 * DigitsValue(SubSeq(s, 1, Len(s) - 1)) + DigitVal(s[Len(s)])

RECURSIVE Pow10(_)
Pow10(k) == IF k = 0 THEN 1 ELSE 10 * Pow10(k - 1)

\* str(n) for n >= 0
RECURSIVE NatToStr(_)
NatToStr(n) ==
    IF n < 10 THEN <<Chr(48 + n)>>
    ELSE NatToStr(n \div 10) \o <<Chr(48 + (n % 10))>>

\* f"{n}" for an int
IntToStr(n) == IF n < 0 THEN <<"-">> \o NatToStr(-n) ELSE NatToStr(n)

\* n zero-padded to width w, as strftime's %d %m %Y %H %M write it
RECURSIVE Pad(_, _)
Pad(s, w) == IF Len(s) >= w THEN s ELSE Pad(<<"0">> \o s, w)

IsLeap(y) == (y % 4 = 0 /\ y % 100 # 0) \/ y % 400 = 0

DaysInMonth(y, m) ==
    IF m = 2 THEN (IF IsLeap(y) THEN 29 ELSE 28)
    ELSE IF m \in {4, 6, 9, 11} THEN 30
    ELSE 31

\* Days from 1970-01-01 to y-m-d in the proleptic Gregorian calendar, which
\* is the calendar of datetime.
DaysFromCivil(y, m, d) ==
    LET yy  == IF m <= 2 THEN y - 1 ELSE y
        era == yy \div 400
        yoe == yy - era * 400
        mp  == IF m > 2 THEN m - 3 ELSE m + 9
        doy == (153 * mp + 2) \div 5 + d - 1
        doe == yoe * 365 + yoe \div 4 - yoe \div 100 + doy
    IN  era * 146097 + doe - 719468

\* The inverse: <<y, m, d>> of a day count.
CivilFromDays(z) ==
    LET zz  == z + 719468
        era == zz \div 146097
        doe == zz - era * 146097
        yoe == (doe - doe \div 1460 + doe \div 36524 - doe \div 146096) \div 365
        doy == doe - (365 * yoe + yoe \div 4 - yoe \div 100)
        mp  == (5 * doy + 2) \div 153
        d   == doy - (153 * mp + 2) \div 5 + 1
        m   == IF mp < 10 THEN mp + 3 ELSE mp - 9
        y   == yoe + era * 400
    IN  <<IF m <= 2 THEN y + 1 ELSE y, m, d>>

\* datetime.strptime(f"{d}/{m}/{y} {time_str}", "%d/%m/%Y %H:%M") on the
\* split parts: one or two digits for the day, month, hour and minute, four
\* for the year, each in its range.  None when strptime raises ValueError;
\* else <<minutes from 1970-01-01 00:00 of the naive datetime>>.
Strptime(d, m, y, time_str) ==
    LET hm == Split(time_str, ":") IN
    IF ~ (IsDigits(d) /\ Len(d) <= 2 /\ IsDigits(m) /\ Len(m) <= 2
          /\ IsDigits(y) /\ Len(y) = 4 /\ Len(hm) = 2)
    THEN None
    ELSE IF ~ (IsDigits(hm[1]) /\ Len(hm[1]) <= 2
               /\ IsDigits(hm[2]) /\ Len(hm[2]) <= 2)
    THEN None
    ELSE LET dv == DigitsValue(d)
             mv == DigitsValue(m)
             yv == DigitsValue(y)
             hv == DigitsValue(hm[1])
             nv == DigitsValue(hm[2])
         IN  IF mv < 1 \/ mv > 12 \/ yv < 1 \/ hv > 23 \/ nv > 59 THEN None
             ELSE IF dv < 1 \/ dv > DaysInMonth(yv, mv) THEN None
             ELSE Some(DaysFromCivil(yv, mv, dv) * 1440 + hv * 60 + nv)

\* round(num / den) for num, den >= 0, ties to even as Python's round
RoundDiv(num, den) ==
    LET q == num \div den
        r == num % den
    IN  IF 2 * r < den THEN q
        ELSE IF 2 * r > den THEN q + 1
        ELSE IF q % 2 = 0 THEN q ELSE q + 1

\* offs.replace("+","").replace("-","")
Unsigned(offs) == Remove(Remove(offs, <<"+">>), <<"-">>)

\* The inner try block of parse_to_utc (app.py 102-115): the offset in
\* minutes, 0 when the conversion raises.  int() and float() are modelled on
\* signs, decimal digits, ":" and "."; exponents, "inf", "nan", underscores
\* and inner blanks are spellings the inputs below do not use.
OffsetMinutes(offs) ==
    LET sign == IF StartsWith(offs, <<"-">>) THEN -1 ELSE 1
        mag  == Unsigned(offs)
    IN  IF Contains(offs, <<":">>)
        THEN LET p == Split(mag, ":")
             IN  IF Len(p) = 2 /\ IsDigits(p[1]) /\ IsDigits(p[2])
                 THEN sign * (DigitsValue(p[1]) * 60 + DigitsValue(p[2]))
                 ELSE 0
        ELSE IF Contains(offs, <<".">>)
        THEN LET p == Split(mag, ".")
             IN  IF Len(p) = 2 /\ (p[1] # << >> \/ p[2] # << >>)
                    /\ (p[1] = << >> \/ IsDigits(p[1]))
                    /\ (p[2] = << >> \/ IsDigits(p[2]))
                 THEN sign * (DigitsValue(p[1]) * 60
                              + RoundDiv(DigitsValue(p[2]) * 60, Pow10(Len(p[2]))))
                 ELSE 0
        ELSE IF offs = << >> THEN 0
        ELSE LET digits == IF Head(offs) \in {"+", "-"} THEN Tail(offs) ELSE offs
             IN  IF IsDigits(digits) THEN sign * DigitsValue(digits) * 60 ELSE 0

\* parse_to_utc: None, or <<the instant in minutes from 1970-01-01 00:00 UTC>>
ParseToUtc(date_str, time_str, utc_offset_str) ==
    LET ds   == Strip(date_str)
        ts   == Strip(time_str)
        offs == Strip(Remove(Strip(utc_offset_str), <<"U", "T", "C">>))
        dmy  == Split(ds, "/")
    IN  IF ds = << >> \/ ts = << >> THEN None
        ELSE IF Len(dmy) # 3 THEN None
        ELSE LET y == IF Len(dmy[3]) = 2 THEN <<"2", "0">> \o dmy[3] ELSE dmy[3]
                 naive == Strptime(dmy[1], dmy[2], y, ts)
                 minutes == OffsetMinutes(offs)
             IN  IF naive = None THEN None
                 \* timezone() takes an offset strictly within a day
                 ELSE IF minutes <= -1440 \/ minutes >= 1440 THEN None
                 ELSE Some(Val(naive) - minutes)

\* dt.strftime("%d/%m/%Y") if dt else ""
FmtDateUtc(dt) ==
    IF dt = None THEN << >>
    ELSE LET ymd == CivilFromDays(Val(dt) \div 1440)
         IN  Pad(NatToStr(ymd[3]), 2) \o <<"/">> \o Pad(NatToStr(ymd[2]), 2)
             \o <<"/">> \o Pad(NatToStr(ymd[1]), 4)

\* dt.strftime("%H:%M") if dt else ""
FmtTimeUtc(dt) ==
    IF dt = None THEN << >>
    ELSE LET t == Val(dt) % 1440
         IN  Pad(NatToStr(t \div 60), 2) \o <<":">> \o Pad(NatToStr(t % 60), 2)

\* max(mins or 0, 0)
Clamped(m) == IF m = None \/ Val(m) < 0 THEN 0 ELSE Val(m)

\* Mutant: divmod(mins or 0, 60), without the clamp.
HumanizeUnclamped(m) ==
    LET n == IF m = None THEN 0 ELSE Val(m)
        h == n \div 60
        r == n % 60
    IN  IF h # 0 /\ r # 0 THEN IntToStr(h) \o <<"h", " ">> \o IntToStr(r) \o <<"m">>
        ELSE IF h # 0 THEN IntToStr(h) \o <<"h">>
        ELSE IntToStr(r) \o <<"m">>

\* Mutant: the hours-only test runs first.
HumanizeHoursFirst(m) ==
    LET h == Clamped(m) \div 60
        r == Clamped(m) % 60
    IN  IF h # 0 THEN IntToStr(h) \o <<"h">>
        ELSE IntToStr(r) \o <<"m">>

\* humanize_minutes, app.py 127-131
HumanizeMinutes(m) ==
    LET h == Clamped(m) \div 60
        r == Clamped(m) % 60
    IN  IF h # 0 /\ r # 0 THEN IntToStr(h) \o <<"h", " ">> \o IntToStr(r) \o <<"m">>
        ELSE IF h # 0 THEN IntToStr(h) \o <<"h">>
        ELSE IntToStr(r) \o <<"m">>

-----------------------------------------------------------------------------
(* parse_uploaded_tsv and collect_pairs, app.py 16-71 *)

\* Not the "\r" of a "\r\n" pair; p is <<character, the one after it>>.
NotCrOfCrLf(p) == ~ (p[1] = "\r" /\ p[2] = "\n")

\* text.replace("\r\n", "\n").replace("\r", "\n")
NormalizeNewlines(t) ==
    LET withNext == [i \in 1..Len(t) |->
                        <<t[i], IF i < Len(t) THEN t[i + 1] ELSE "">>]
        kept == SelectSeq(withNext, NotCrOfCrLf)
    IN  [i \in 1..Len(kept) |-> IF kept[i][1] = "\r" THEN "\n" ELSE kept[i][1]]

\* The body of the loop of app.py 32-41 on one line: the lines it appends.
KeepLine(ln) ==
    LET s == Strip(ln) IN
    IF s = << >> THEN << >>
    ELSE IF StartsWith(s, <<"#">>)
         THEN IF Contains(s, <<"C", "I", "D">>)
                 /\ Contains(s, <<"L", "a", "b", "e", "l">>)
              THEN <<Strip(LStripChar(s, "#"))>>
              ELSE << >>
    ELSE <<s>>

RECURSIVE KeepLines(_)
KeepLines(lns) ==
    IF lns = << >> THEN << >>
    ELSE KeepLine(Head(lns)) \o KeepLines(Tail(lns))

ReadLines(text) == KeepLines(Split(NormalizeNewlines(text), "\n"))

\* csv.reader(lines, delimiter="\t") on lines that hold no quote character:
\* an empty line is the empty row, any other is cut at its tabs.
CsvRow(ln) == IF ln = << >> THEN << >> ELSE Split(ln, "\t")
CsvRows(lns) == [i \in 1..Len(lns) |-> CsvRow(lns[i])]

LowCells(row) == [j \in 1..Len(row) |-> Lower(Strip(row[j]))]

CidWord == <<"c", "i", "d">>
LabelWord == <<"l", "a", "b", "e", "l">>

IsHeader(row) == CidWord \in Range(LowCells(row)) /\ LabelWord \in Range(LowCells(row))

\* low.index(x), zero-based
IndexOf(low, x) == (CHOOSE j \in 1..Len(low) : low[j] = x
                        /\ \A k \in 1..(j - 1) : low[k] # x) - 1

HeaderRows == 5

\* Mutant: the scan runs over every row.
ScanAll(rws) == Len(rws)

\* range(min(5, len(rows)))
ScanCount(rws) == IF Len(rws) < HeaderRows THEN Len(rws) ELSE HeaderRows

\* The loop of app.py 45-48: None, or <<header_row, cid_idx, label_idx>>
\* (zero-based) of the first header row among the scanned ones.
FindHeader(rws) ==
    LET hits == {i \in 1..ScanCount(rws) : IsHeader(rws[i])} IN
    IF hits = {} THEN None
    ELSE LET i == CHOOSE h \in hits : \A g \in hits : h <= g
             low == LowCells(rws[i])
         IN  Some(<<i - 1, IndexOf(low, CidWord), IndexOf(low, LabelWord)>>)

\* rows[header_row+1:] if header_row is not None else rows
DataRows(rws, hdr) ==
    IF hdr = None THEN rws ELSE SubSeq(rws, Val(hdr) + 2, Len(rws))

IndexError == <<"<IndexError>">>

\* r[idx].strip() if idx < len(r) else ""
Cell(r, idx) ==
    IF idx < Len(r)
    THEN (IF idx + 1 \in DOMAIN r THEN Strip(r[idx + 1]) ELSE IndexError)
    ELSE << >>

Reserved ==
    { <<"E", "N", "A", "B", "L", "E", "D">>,
      <<"D", "I", "S", "A", "B", "L", "E", "D">>,
      <<"C", "I", "D">>,
      <<"L", "A", "B", "E", "L">> }

\* The body of the loop of app.py 54-64 on one row: the pairs it appends.
ExtractRow(r, ci, li) ==
    IF r = << >> THEN << >>
    ELSE LET cid == Cell(r, ci)
             label == Cell(r, li)
         IN  IF cid = << >> THEN << >>
             ELSE IF Upper(cid) \in Reserved THEN << >>
             ELSE << <<cid, label>> >>

RowRaises(r, ci, li) ==
    r # << >> /\ (Cell(r, ci) = IndexError \/ Cell(r, li) = IndexError)

RECURSIVE ExtractRows(_, _, _)
ExtractRows(rws, ci, li) ==
    IF rws = << >> THEN << >>
    ELSE ExtractRow(Head(rws), ci, li) \o ExtractRows(Tail(rws), ci, li)

\* cid_idx and label_idx after the defaults of app.py 50-51
CidIdx(found) == IF found = None THEN 0 ELSE Val(found)[2]
LabelIdx(found) == IF found = None THEN 1 ELSE Val(found)[3]
HeaderRow(found) == IF found = None THEN None ELSE Some(Val(found)[1])

\* The whole function on a decoded, non-empty upload.
ParseUploadedTsv(text) ==
    LET rws == CsvRows(ReadLines(text))
        found == FindHeader(rws)
    IN  ExtractRows(DataRows(rws, HeaderRow(found)), CidIdx(found), LabelIdx(found))

\* collect_pairs
RECURSIVE CollectPairs(_)
CollectPairs(files) ==
    IF files = << >> THEN << >>
    ELSE ParseUploadedTsv(Head(files)) \o CollectPairs(Tail(files))

-----------------------------------------------------------------------------
(* build_email, app.py 135-221 *)

DayMinutes == 1440

\* Mutant: the wraparound also fires when end equals start.
EndAfterWrapInclusive(s, e) == IF e <= s THEN e + DayMinutes ELSE e

\* app.py 148-149: end_utc after "if end_utc < start_utc: end_utc += 1 day"
EndAfterWrap(s, e) == IF e < s THEN e + DayMinutes ELSE e

\* app.py 150: int((end_utc - start_utc).total_seconds() // 60); the instants
\* are whole minutes, so the floor division is exact.
DurationMinutes(s, e) == e - s

ZeroAliases ==
    { <<"0">>, <<"0", "m">>, <<"0", "m", "i", "n">>,
      <<"0", " ", "m", "i", "n", "u", "t", "e", "s">>,
      <<"0", "m", "i", "n", "s">>, <<"0", "h">>,
      <<"0", " ", "h", "r">>, <<"0", " ", "h", "r", "s">> }

Specify == <<"[", "s", "p", "e", "c", "i", "f", "y", "]">>

\* Mutant: the alias test misses .lower().
DowntimeFinalCaseSensitive(o, calc) ==
    IF Strip(o) \in ZeroAliases THEN <<"0">>
    ELSE IF Strip(o) # << >> THEN Strip(o)
    ELSE IF calc # None THEN HumanizeMinutes(calc)
    ELSE Specify

\* app.py 152-161
DowntimeFinal(o, calc) ==
    LET override == Lower(Strip(o)) IN
    IF override \in ZeroAliases THEN <<"0">>
    ELSE IF override # << >> THEN Strip(o)
    ELSE IF calc # None THEN HumanizeMinutes(calc)
    ELSE Specify

\* s.strip(", ")
RECURSIVE StripCommaSpace(_)
StripCommaSpace(s) ==
    IF s # << >> /\ Head(s) \in {",", " "} THEN StripCommaSpace(Tail(s))
    ELSE IF s # << >> /\ s[Len(s)] \in {",", " "}
         THEN StripCommaSpace(SubSeq(s, 1, Len(s) - 1))
    ELSE s

Dash == <<" ", "-", " ">>
CommaSpace == <<",", " ">>
UTC0 == <<"U", "T", "C", "+", "0">>

\* Mutant: the joins keep the empty parts.
SubjectDtKeepEmpty(sd, ed, st, et) ==
    StripCommaSpace(Join(<<Join(<<sd, ed>>, Dash), Join(<<st, et>>, Dash), UTC0>>,
                         CommaSpace))

\* app.py 167-171
SubjectDt(sd, ed, st, et) ==
    StripCommaSpace(Join(NonEmpty(<<Join(NonEmpty(<<sd, ed>>), Dash),
                                    Join(NonEmpty(<<st, et>>), Dash),
                                    UTC0>>),
                         CommaSpace))

Slash == <<" ", "/", " ">>

\* app.py 173: the three bracketed parts of the subject line
Subject(f, dt) ==
    [ jira_ref |-> Strip(f.jira_ref),
      site     |-> Strip(f.pop) \o Slash \o Strip(f.equipment),
      dt       |-> dt ]

RECURSIVE StripAll(_)
StripAll(ps) ==
    IF ps = << >> THEN << >> ELSE <<Strip(Head(ps))>> \o StripAll(Tail(ps))

\* app.py 175-181
PurposeBlock(f) ==
    LET purposes == NonEmpty(StripAll(f.purpose_presets \o <<f.purpose_free>>)) IN
    IF purposes # << >> THEN Join(purposes, <<";", " ">>)
    ELSE <<"[", "E", "n", "t", "e", "r", " ", "p", "u", "r", "p", "o", "s",
           "e", " ", "h", "e", "r", "e", "]">>

Indented(xs) == [i \in 1..Len(xs) |-> <<" ", " ">> \o xs[i]]
Block(title, xs) ==
    IF xs = << >> THEN << >> ELSE title \o Join(Indented(xs), <<"\n">>)

\* app.py 183-190
ImpactedText(c) ==
    LET blocks == NonEmpty(<<Block(<<"W", "L", " ", "/", " ", "W", "L", "P",
                                ":", "\n">>, c[1]),
                             Block(<<"O", "C", ":", "\n">>, c[2]),
                             Block(<<"3", "P", "O", "C", ":", "\n">>, c[3])>>) IN
    IF blocks # << >> THEN Join(blocks, <<"\n", "\n">>)
    ELSE <<"(", "n", "o", "n", "e", " ", "d", "e", "t", "e", "c", "t", "e",
           "d", ")">>

\* app.py 192-193
PopEquipLine(f) ==
    Strip(f.pop) \o Slash \o Strip(f.equipment)
    \o (IF Strip(f.line) # << >> THEN Slash \o Strip(f.line) ELSE << >>)

NoInterruption ==
    <<"N", "o", " ", "s", "e", "r", "v", "i", "c", "e", " ", "i", "n", "t",
      "e", "r", "r", "u", "p", "t", "i", "o", "n", " ", "i", "s", " ", "a",
      "n", "t", "i", "c", "i", "p", "a", "t", "e", "d", ".">>

\* app.py 195-198
ImpactBlock(final) ==
    IF Lower(final) \in ZeroAliases \/ final = <<"0">> THEN NoInterruption
    ELSE <<"D", "o", "w", "n", "t", "i", "m", "e", ":", " ">> \o final

\* app.py 200-219: the interpolated fields of the body template, in order
Body(f, c, s, e, final) ==
    [ pop_equip_line |-> PopEquipLine(f),
      start          |-> FmtDateUtc(s) \o <<" ">> \o FmtTimeUtc(s),
      end            |-> FmtDateUtc(e) \o <<" ">> \o FmtTimeUtc(e),
      purpose_block  |-> PurposeBlock(f),
      impacted_text  |-> ImpactedText(c),
      impact_block   |-> ImpactBlock(final) ]

\* app.py 220
CalculatedDowntime(calc) ==
    IF calc # None THEN HumanizeMinutes(calc) ELSE << >>

-----------------------------------------------------------------------------
(* Inputs *)

MaxPairs == 3
MaxLead == 5
MaxTail == 2
MaxDays == 2
MaxMinutes == 1500

SeqsUpTo(S, n) == UNION {[1..k -> S] : k \in 0..n}

\* Identifiers: a prefix followed by a suffix, and one no test matches.
CidPrefixes ==
    { <<"O", "C">>, <<"3", "p", "o", "c">>,
      <<"o", "c", "-", "9", "0", "0", "0", "0", "1">> }
CidSuffixes ==
    { <<"-", "1">>, <<"-", "W", "L", "-", "1">>,
      <<"-", "w", "l", "p", "-", "2">> }
Cids == {p \o s : p \in CidPrefixes, s \in CidSuffixes} \cup { <<"X", "-", "1">> }
LabelledCids ==
    { <<"O", "C", "-", "1">>, <<"3", "p", "o", "c", "-", "1">>,
      <<"O", "C", "-", "W", "L", "-", "1">> }
Records ==
    {<<c, << >>>> : c \in Cids} \cup {<<c, <<"A">>>> : c \in LabelledCids}

\* Uploads: MaxLead or fewer copies of a data line, an optional header line,
\* then MaxTail or fewer lines, joined by one newline style.
LeadLines ==
    { <<"O", "C", "-", "1", "\t", "S", "i", "t", "e", "A">>,
      <<"W", "L", "-", "2">> }
HeaderLines ==
    { <<"C", "I", "D", "\t", "L", "a", "b", "e", "l">>,
      <<"#", "C", "I", "D", "\t", "L", "a", "b", "e", "l">>,
      <<"L", "a", "b", "e", "l", "\t", "x", "\t", "c", "i", "d">> }
TailLines ==
    { <<"O", "C", "-", "1", "\t", "S", "i", "t", "e", "A">>,
      <<"3", "P", "O", "C", "-", "9">>,
      <<"#", " ", "n", "o", "t", "e">>,
      <<"E", "N", "A", "B", "L", "E", "D", "\t", "x">>,
      <<"B", "\t", "x", "\t", "O", "C", "-", "7">>,
      <<" ", "\t", " ">> }
Newlines == { <<"\n">>, <<"\r", "\n">> }

Copies(ln, k) == [i \in 1..k |-> ln]

Uploads ==
    { Join(Copies(lead, k) \o hdr \o tail, nl) :
        k \in 0..MaxLead, lead \in LeadLines,
        hdr \in {<< >>} \cup {<<h>> : h \in HeaderLines},
        tail \in SeqsUpTo(TailLines, MaxTail), nl \in Newlines }

\* The form fields that the claims do not vary.
PlainForm ==
    [ jira_ref |-> <<" ", "J", "-", "1", " ">>,
      pop |-> <<"P", "1">>, equipment |-> <<"R", "1">>, line |-> << >>,
      purpose_presets |-> << >>, purpose_free |-> << >>, files |-> << >> ]
FullForm ==
    [ jira_ref |-> <<"J", "-", "2">>,
      pop |-> <<"P", "2">>, equipment |-> <<"R", "2">>, line |-> <<"L", "2">>,
      purpose_presets |-> << <<"f", "i", "x">>, << >> >>,
      purpose_free |-> <<" ", "t", "e", "s", "t", " ">>,
      files |-> << <<"#", "C", "I", "D", "\t", "L", "a", "b", "e", "l", "\n",
                 "O", "C", "-", "1", "\t", "S", "i", "t", "e", "A", "\n",
                 "W", "L", "-", "2", "\n", "O", "C", "-", "1", "\t", "S",
                 "i", "t", "e", "A">> >> ]
Forms == {PlainForm, FullForm}

\* 31/12/2023, the first of the MaxDays + 1 consecutive dates
FirstDay == DaysFromCivil(2023, 12, 31)
Dates ==
    { << >>, <<"0", "1", "/", "0", "1", "/", "2", "4">> }
    \cup { FmtDateUtc(Some((FirstDay + k) * DayMinutes)) : k \in 0..MaxDays }
Times ==
    { <<"0", "0", ":", "1", "5">>, <<"0", "9", ":", "0", "0">>,
      <<"1", "0", ":", "0", "0">>, <<"1", "1", ":", "0", "0">>,
      <<"2", "3", ":", "3", "0">> }
Offsets ==
    { <<"+", "0">>, <<"U", "T", "C", "+", "3">>,
      <<"-", "5", ":", "3", "0">>, <<"1", ".", "5">> }
Overrides ==
    { << >>, <<" ", " ">>, <<" ", "0", " ", "H", "r", "s", " ">>,
      <<"0", " ", "m">>, <<" ", "2", "H", " ">> }

-----------------------------------------------------------------------------
(* Idle values of the variables a specification does not use *)

ParserIdle ==
    /\ content = << >> /\ lines = << >> /\ rows = << >>
    /\ header_row = None /\ cid_idx = None /\ label_idx = None
    /\ parsed = << >> /\ raised = FALSE

ClassifierIdle ==
    /\ pairs = << >> /\ pos = 0
    /\ wl_wlp = {} /\ oc_list = {} /\ poc3_list = {}
    /\ placed = << >> /\ classified = None

HumanizeIdle == mins = None /\ rendered = None

InputIdle ==
    /\ form = PlainForm
    /\ start_date = << >> /\ start_time = << >>
    /\ end_date = << >> /\ end_time = << >>
    /\ utc_single = << >> /\ override_downtime = << >>

EmailIdle ==
    /\ start_utc = None /\ end_utc = None /\ calc_downtime_mins = None
    /\ downtime_final = << >> /\ subject = None /\ body = None
    /\ calculated_downtime = << >> /\ previous = None

-----------------------------------------------------------------------------
(* parse_uploaded_tsv, step by step *)

InitParser ==
    /\ pc = "read"
    /\ content \in Uploads
    /\ lines = << >> /\ rows = << >>
    /\ header_row = None /\ cid_idx = None /\ label_idx = None
    /\ parsed = << >> /\ raised = FALSE
    /\ ClassifierIdle /\ HumanizeIdle /\ InputIdle /\ EmailIdle

\* app.py 19-41
ReadStep ==
    /\ pc = "read"
    /\ IF content = << >>
       THEN pc' = "done" /\ lines' = lines
       ELSE pc' = "csv" /\ lines' = ReadLines(content)
    /\ UNCHANGED <<content, rows, header_row, cid_idx, label_idx, parsed, raised>>
    /\ UNCHANGED <<classifierVars, humanizeVars, inputVars, emailVars>>

\* app.py 43
CsvStep ==
    /\ pc = "csv"
    /\ rows' = CsvRows(lines)
    /\ pc' = "header"
    /\ UNCHANGED <<content, lines, header_row, cid_idx, label_idx, parsed, raised>>
    /\ UNCHANGED <<classifierVars, humanizeVars, inputVars, emailVars>>

\* app.py 44-51
HeaderStep ==
    /\ pc = "header"
    /\ LET found == FindHeader(rows) IN
        /\ header_row' = HeaderRow(found)
        /\ cid_idx' = Some(CidIdx(found))
        /\ label_idx' = Some(LabelIdx(found))
    /\ pc' = "extract"
    /\ UNCHANGED <<content, lines, rows, parsed, raised>>
    /\ UNCHANGED <<classifierVars, humanizeVars, inputVars, emailVars>>

\* app.py 53-65
ExtractStep ==
    /\ pc = "extract"
    /\ LET data == DataRows(rows, header_row)
           ci == Val(cid_idx)
           li == Val(label_idx)
       IN  IF \E i \in 1..Len(data) : RowRaises(data[i], ci, li)
           THEN raised' = TRUE /\ parsed' = parsed
           ELSE raised' = FALSE /\ parsed' = ExtractRows(data, ci, li)
    /\ pc' = "done"
    /\ UNCHANGED <<content, lines, rows, header_row, cid_idx, label_idx>>
    /\ UNCHANGED <<classifierVars, humanizeVars, inputVars, emailVars>>

NextParser == ReadStep \/ CsvStep \/ HeaderStep \/ ExtractStep

SpecParser == InitParser /\ [][NextParser]_vars

-----------------------------------------------------------------------------
(* classify_wl_oc_3poc, one loop iteration per step *)

InitClassifier ==
    /\ pc = "loop"
    /\ pairs \in SeqsUpTo(Records, MaxPairs)
    /\ pos = 0
    /\ wl_wlp = {} /\ oc_list = {} /\ poc3_list = {}
    /\ placed = << >> /\ classified = None
    /\ ParserIdle /\ HumanizeIdle /\ InputIdle /\ EmailIdle

\* app.py 75-87
ClassifyStep ==
    /\ pc = "loop"
    /\ pos < Len(pairs)
    /\ LET rec == pairs[pos + 1]
           nxt == ClassifyOne([wl |-> wl_wlp, oc |-> oc_list, poc3 |-> poc3_list],
                              rec)
       IN  /\ wl_wlp' = nxt.wl
           /\ oc_list' = nxt.oc
           /\ poc3_list' = nxt.poc3
           /\ placed' = Append(placed, Category(Cid(rec)))
    /\ pos' = pos + 1
    /\ UNCHANGED <<pc, pairs, classified>>
    /\ UNCHANGED <<parserVars, humanizeVars, inputVars, emailVars>>

\* app.py 88
ClassifyReturn ==
    /\ pc = "loop"
    /\ pos = Len(pairs)
    /\ classified' = Some(<<Sorted(wl_wlp), Sorted(oc_list), Sorted(poc3_list)>>)
    /\ pc' = "done"
    /\ UNCHANGED <<pairs, pos, wl_wlp, oc_list, poc3_list, placed>>
    /\ UNCHANGED <<parserVars, humanizeVars, inputVars, emailVars>>

NextClassifier == ClassifyStep \/ ClassifyReturn

SpecClassifier == InitClassifier /\ [][NextClassifier]_vars

-----------------------------------------------------------------------------
(* humanize_minutes *)

InitHumanize ==
    /\ pc = "call"
    /\ mins \in {None} \cup {Some(n) : n \in (-MaxMinutes)..MaxMinutes}
    /\ rendered = None
    /\ ParserIdle /\ ClassifierIdle /\ InputIdle /\ EmailIdle

\* app.py 127-131
HumanizeStep ==
    /\ pc = "call"
    /\ rendered' = Some(HumanizeMinutes(mins))
    /\ pc' = "done"
    /\ UNCHANGED <<mins, parserVars, classifierVars, inputVars, emailVars>>

NextHumanize == HumanizeStep

SpecHumanize == InitHumanize /\ [][NextHumanize]_vars

-----------------------------------------------------------------------------
(* build_email, called by api_preview *)

InitEmail ==
    /\ pc = "parse"
    /\ form \in Forms
    /\ start_date \in Dates /\ start_time \in Times
    /\ end_date \in Dates /\ end_time \in Times
    /\ utc_single \in Offsets
    /\ override_downtime \in Overrides
    /\ EmailIdle
    /\ ParserIdle /\ ClassifierIdle /\ HumanizeIdle

\* app.py 141-145
BuildParse ==
    /\ pc = "parse"
    /\ pairs' = CollectPairs(form.files)
    /\ classified' = Some(Classify(pairs'))
    /\ start_utc' = ParseToUtc(start_date, start_time, utc_single)
    /\ end_utc' = ParseToUtc(end_date, end_time, utc_single)
    /\ pc' = "duration"
    /\ UNCHANGED <<calc_downtime_mins, downtime_final, subject, body,
                   calculated_downtime, previous>>
    /\ UNCHANGED <<pos, wl_wlp, oc_list, poc3_list, placed>>
    /\ UNCHANGED <<parserVars, humanizeVars, inputVars>>

\* app.py 146-150
BuildDuration ==
    /\ pc = "duration"
    /\ IF start_utc # None /\ end_utc # None
       THEN /\ end_utc' = Some(EndAfterWrap(Val(start_utc), Val(end_utc)))
            /\ calc_downtime_mins' =
                   Some(DurationMinutes(Val(start_utc), Val(end_utc')))
       ELSE /\ end_utc' = end_utc
            /\ calc_downtime_mins' = None
    /\ pc' = "downtime"
    /\ UNCHANGED <<start_utc, downtime_final, subject, body, calculated_downtime,
                   previous>>
    /\ UNCHANGED <<parserVars, classifierVars, humanizeVars, inputVars>>

\* app.py 152-161
BuildDowntime ==
    /\ pc = "downtime"
    /\ downtime_final' = DowntimeFinal(override_downtime, calc_downtime_mins)
    /\ pc' = "compose"
    /\ UNCHANGED <<start_utc, end_utc, calc_downtime_mins, subject, body,
                   calculated_downtime, previous>>
    /\ UNCHANGED <<parserVars, classifierVars, humanizeVars, inputVars>>

\* app.py 163-221 with cd as the third returned value
ComposeWith(cd) ==
    /\ pc = "compose"
    /\ subject' = Some(Subject(form, SubjectDt(FmtDateUtc(start_utc),
                                               FmtDateUtc(end_utc),
                                               FmtTimeUtc(start_utc),
                                               FmtTimeUtc(end_utc))))
    /\ body' = Some(Body(form, Val(classified), start_utc, end_utc,
                         downtime_final))
    /\ calculated_downtime' = cd
    /\ pc' = "done"
    /\ UNCHANGED <<start_utc, end_utc, calc_downtime_mins, downtime_final,
                   previous>>
    /\ UNCHANGED <<parserVars, classifierVars, humanizeVars, inputVars>>

\* Mutant: the third returned value is the downtime used in the body.
BuildComposeFinal == ComposeWith(downtime_final)

\* app.py 163-221
BuildCompose == ComposeWith(CalculatedDowntime(calc_downtime_mins))

\* app.py 229-253: the form is submitted again with another override, all
\* other fields as before; the previous call's third value is remembered.
Resubmit ==
    /\ pc = "done"
    /\ override_downtime' \in Overrides \ {override_downtime}
    /\ previous' = Some(calculated_downtime)
    /\ start_utc' = None /\ end_utc' = None /\ calc_downtime_mins' = None
    /\ downtime_final' = << >> /\ subject' = None /\ body' = None
    /\ calculated_downtime' = << >>
    /\ pairs' = << >> /\ classified' = None
    /\ pc' = "parse"
    /\ UNCHANGED <<form, start_date, start_time, end_date, end_time, utc_single>>
    /\ UNCHANGED <<pos, wl_wlp, oc_list, poc3_list, placed>>
    /\ UNCHANGED <<parserVars, humanizeVars>>

NextEmail ==
    BuildParse \/ BuildDuration \/ BuildDowntime \/ BuildCompose \/ Resubmit

SpecEmail == InitEmail /\ [][NextEmail]_vars

-----------------------------------------------------------------------------
(* Properties of classify_wl_oc_3poc (SpecClassifier) *)

HasWL(cid) == Contains(Upper(cid), WLdash) \/ Contains(Upper(cid), WLPdash)
IsExcludedId(cid) == StartsWith(Upper(cid), OC900001)
Returned(k) == Range(Val(classified)[k])

\* What a consumed record contributes to its category.
EntryOf(i) ==
    IF placed[i] = "WL/WLP" THEN Cid(pairs[i]) ELSE Display(pairs[i])
Listed == {"WL/WLP", "OC", "3POC"}
ListOf(cat) ==
    IF cat = "WL/WLP" THEN Val(classified)[1]
    ELSE IF cat = "OC" THEN Val(classified)[2]
    ELSE Val(classified)[3]
StrictlyAscending(l) ==
    \A a \in 1..Len(l) : \A b \in 1..Len(l) : a < b => StrLess(l[a], l[b])

\* C1 as stated: every record whose identifier contains "WL-" or "WLP-"
\* (case-insensitively) has its identifier in the returned WL/WLP list and in
\* neither the OC nor the 3POC list.
C1_Stated ==
    pc = "done" =>
        \A i \in 1..Len(pairs) :
            HasWL(Cid(pairs[i])) =>
                /\ Cid(pairs[i]) \in Returned(1)
                /\ Cid(pairs[i]) \notin Returned(2)
                /\ Cid(pairs[i]) \notin Returned(3)

\* C1 amended: every consumed record whose identifier contains "WL-" or
\* "WLP-" (case-insensitively) and whose upper-cased identifier does not start
\* with "OC-900001" takes the WL/WLP branch, whatever its prefix: its
\* identifier is in the WL/WLP set, and in the returned WL/WLP list once the
\* function has returned; it takes neither the OC nor the 3POC branch.
C1_WlTakesPrecedence ==
    \A i \in 1..pos :
        (HasWL(Cid(pairs[i])) /\ ~ IsExcludedId(Cid(pairs[i]))) =>
            /\ placed[i] = "WL/WLP"
            /\ Cid(pairs[i]) \in wl_wlp
            /\ (pc = "done" => Cid(pairs[i]) \in Returned(1))

\* A record "OC-WL-1" and a record "3poc-..." with "wlp-" were both returned
\* in the WL/WLP list.
C1_Witness ==
    /\ pc = "done"
    /\ \E i \in 1..Len(pairs) :
          /\ StartsWith(Cid(pairs[i]), OC) /\ HasWL(Cid(pairs[i]))
          /\ Cid(pairs[i]) \in Returned(1)
    /\ \E j \in 1..Len(pairs) :
          /\ StartsWith(Upper(Cid(pairs[j])), POC3) /\ HasWL(Cid(pairs[j]))
          /\ Cid(pairs[j]) \in Returned(1)

\* C2: a consumed record whose upper-cased identifier starts with "OC-900001"
\* takes the excluded branch, and neither its identifier nor its display
\* string is in any of the three sets or, after the return, in any list.
C2_ExcludedEverywhere ==
    \A i \in 1..pos :
        IsExcludedId(Cid(pairs[i])) =>
            /\ placed[i] = "excluded"
            /\ {Cid(pairs[i]), Display(pairs[i])}
                   \cap (wl_wlp \cup oc_list \cup poc3_list) = {}
            /\ (pc = "done" =>
                    {Cid(pairs[i]), Display(pairs[i])}
                        \cap (Returned(1) \cup Returned(2) \cup Returned(3)) = {})

\* A lower-case "oc-900001..." identifier that also contains "WL-" was
\* consumed beside a record that was listed.
C2_Witness ==
    /\ pc = "done"
    /\ \E i \in 1..Len(pairs) :
          /\ IsExcludedId(Cid(pairs[i])) /\ ~ StartsWith(Cid(pairs[i]), OC900001)
          /\ HasWL(Cid(pairs[i]))
    /\ Returned(2) # {}

\* C3 as stated: each returned list is sorted ascending and holds at most one
\* entry per identifier: two records of one category with the same identifier
\* contribute the same entry.
C3_Stated ==
    pc = "done" =>
        /\ \A k \in 1..3 : StrictlyAscending(Val(classified)[k])
        /\ \A i \in 1..Len(pairs) : \A j \in 1..Len(pairs) :
              (placed[i] \in Listed /\ placed[i] = placed[j]
               /\ Cid(pairs[i]) = Cid(pairs[j])) => EntryOf(i) = EntryOf(j)

\* C3 amended: each returned list is sorted strictly ascending (so no entry
\* is repeated) and holds exactly the entries of the records of its category:
\* the identifier for WL/WLP, the display string (identifier, and the label in
\* parentheses when there is one) for OC and 3POC.  Records with the same
\* identifier and the same label collapse to one entry; WL/WLP holds one entry
\* per identifier.
C3_SortedDeduplicated ==
    pc = "done" =>
        /\ \A k \in 1..3 : StrictlyAscending(Val(classified)[k])
        /\ \A cat \in Listed :
              Range(ListOf(cat)) = {EntryOf(i) : i \in {j \in 1..Len(pairs) : placed[j] = cat}}
        /\ Len(Val(classified)[1]) =
               Cardinality({Cid(pairs[i]) : i \in {j \in 1..Len(pairs) : placed[j] = "WL/WLP"}})

\* The same OC record came twice beside another OC record: two entries, in
\* ascending order.
C3_Witness ==
    /\ pc = "done"
    /\ \E i \in 1..Len(pairs) : \E j \in 1..Len(pairs) :
          i # j /\ pairs[i] = pairs[j] /\ placed[i] = "OC"
    /\ Len(Val(classified)[2]) = 2
    /\ Len(pairs) = 3

-----------------------------------------------------------------------------
(* Properties of parse_uploaded_tsv (SpecParser) *)

\* None of the first five parsed rows holds both a "cid" and a "label" cell.
NoHeaderInFirstFive ==
    \A i \in 1..Len(rows) : i <= 5 => ~ IsHeader(rows[i])

\* Column 0 and column 1 of a row, trimmed, a missing cell read as "".
Columns01(r) ==
    << IF Len(r) >= 1 THEN Strip(r[1]) ELSE << >>,
       IF Len(r) >= 2 THEN Strip(r[2]) ELSE << >> >>

KeptPair(p) == p[1] # << >> /\ Upper(p[1]) \notin Reserved

\* C6: when none of the first 5 parsed rows is a header row, the function
\* returns without raising, no row is taken as a header, the columns are 0
\* and 1, and the result is columns 0 and 1 of ALL parsed rows, in order, less
\* the rows whose identifier is blank or a reserved token.
C6_DefaultColumns ==
    (pc = "done" /\ content # << >> /\ NoHeaderInFirstFive) =>
        /\ ~ raised
        /\ header_row = None
        /\ cid_idx = Some(0) /\ label_idx = Some(1)
        /\ parsed = SelectSeq([i \in 1..Len(rows) |-> Columns01(rows[i])], KeptPair)

\* Five data rows of one cell each came before a header row: the header is
\* out of the scan, and every pair has an empty label.
C6_Witness ==
    /\ pc = "done" /\ NoHeaderInFirstFive
    /\ Len(rows) > 5 /\ IsHeader(rows[6])
    /\ Len(rows[1]) = 1
    /\ Len(parsed) >= 5 /\ parsed[1][2] = << >>

-----------------------------------------------------------------------------
(* Properties of build_email (SpecEmail) *)

Resolved == start_utc # None /\ end_utc # None
DowntimeDone == pc \in {"compose", "done"}

Jan1 == <<"0", "1", "/", "0", "1", "/", "2", "0", "2", "4">>
Jan2 == <<"0", "2", "/", "0", "1", "/", "2", "0", "2", "4">>

ExampleOvernight ==
    /\ start_date = Jan1 /\ end_date = Jan2
    /\ Text(start_time) = "23:30" /\ Text(end_time) = "00:15"
ExampleSameDate ==
    /\ start_date = Jan1 /\ end_date = Jan1
    /\ Text(start_time) = "10:00" /\ Text(end_time) = "09:00"

\* C4: with both instants resolved, the step of app.py 146-150 moves an end
\* strictly earlier than the start by exactly 24 hours and computes the
\* duration end + 24h - start in minutes; otherwise it leaves the end as it
\* is.  23:30 to 00:15 of the next day is 45 minutes; 10:00 to 09:00 of the
\* same date is 1380 minutes, returned as "23h".
C4_Wraparound ==
    [][ /\ (pc = "duration" /\ Resolved) =>
              LET s == Val(start_utc)
                  e == Val(end_utc)
              IN  /\ start_utc' = start_utc
                  /\ e < s => (end_utc' = Some(e + 1440)
                               /\ calc_downtime_mins' = Some(e + 1440 - s))
                  /\ e >= s => (end_utc' = end_utc
                                /\ calc_downtime_mins' = Some(e - s))
                  /\ ExampleOvernight => calc_downtime_mins' = Some(45)
                  /\ ExampleSameDate => calc_downtime_mins' = Some(1380)
        /\ (pc = "compose" /\ Resolved /\ ExampleSameDate) =>
              Text(calculated_downtime') = "23h"
      ]_vars

\* 10:00 to 09:00 of the same date was composed: the end is on the next day
\* and the duration is 23h.
C4_Witness ==
    /\ pc = "done"
    /\ ExampleSameDate
    /\ Resolved
    /\ Text(FmtDateUtc(end_utc)) = "02/01/2024"
    /\ calc_downtime_mins = Some(1380)
    /\ Text(calculated_downtime) = "23h"

\* s without its whitespace
NoSpace(c) == ~ IsSpace(c)
Squeezed(s) == SelectSeq(s, NoSpace)

AliasTexts == {"0", "0m", "0min", "0 minutes", "0mins", "0h", "0 hr", "0 hrs"}
SqueezedAliasTexts == {"0", "0m", "0min", "0minutes", "0mins", "0h", "0hr", "0hrs"}

\* C5 as stated: (a) an override that matches a zero alias, compared without
\* regard to case and to whitespace, gives "0"; (b) else a non-empty override
\* gives the trimmed override; (c) else two resolvable instants give the
\* humanized duration; (d) else "[specify]".
C5_Stated ==
    DowntimeDone =>
        IF Text(Squeezed(Lower(override_downtime))) \in SqueezedAliasTexts
        THEN Text(downtime_final) = "0"
        ELSE IF override_downtime # << >>
        THEN downtime_final = Strip(override_downtime)
        ELSE IF Resolved
        THEN downtime_final = HumanizeMinutes(calc_downtime_mins)
        ELSE Text(downtime_final) = "[specify]"

\* C5 amended: (a) an override that, with its leading and trailing whitespace
\* removed and lower-cased, equals a zero alias gives "0" (whitespace inside
\* the override counts: "0 m" is not an alias); (b) else an override that is
\* non-empty after trimming gives the trimmed override, case kept; (c) else
\* two resolvable instants give the humanized duration; (d) else "[specify]".
C5_DowntimePriority ==
    DowntimeDone =>
        /\ IF Text(Lower(Strip(override_downtime))) \in AliasTexts
           THEN Text(downtime_final) = "0"
           ELSE IF Strip(override_downtime) # << >>
           THEN downtime_final = Strip(override_downtime)
           ELSE IF Resolved
           THEN downtime_final = HumanizeMinutes(calc_downtime_mins)
           ELSE Text(downtime_final) = "[specify]"
        /\ Text(override_downtime) = " 0 Hrs " => Text(downtime_final) = "0"
        /\ Text(override_downtime) = "0 m" => Text(downtime_final) = "0 m"
        /\ Text(override_downtime) = " 2H " => Text(downtime_final) = "2H"

\* The override " 0 Hrs " was resolved to "0" although a duration had been
\* computed, and the body says that no interruption is anticipated.
C5_Witness ==
    /\ pc = "done"
    /\ Text(override_downtime) = " 0 Hrs "
    /\ calc_downtime_mins # None
    /\ Text(downtime_final) = "0"
    /\ Val(body).impact_block = NoInterruption

\* C7: the third returned value does not depend on the override: a call that
\* differs from the previous one only in the override returns the same value;
\* it is the humanized duration when both instants are resolvable and ""
\* otherwise, and then a blank override leaves "[specify]" in the body.
C7_CalculatedIgnoresOverride ==
    pc = "done" =>
        /\ previous # None => calculated_downtime = Val(previous)
        /\ Resolved =>
               calculated_downtime =
                   HumanizeMinutes(Some(Val(end_utc) - Val(start_utc)))
        /\ ~ Resolved =>
               /\ calculated_downtime = << >>
               /\ Strip(override_downtime) = << >> =>
                      /\ Text(downtime_final) = "[specify]"
                      /\ Text(Val(body).impact_block) = "Downtime: [specify]"

\* A second call with another override returned the first call's non-empty
\* value, while the body shows the override.
C7_Witness ==
    /\ pc = "done"
    /\ previous # None /\ Val(previous) # << >>
    /\ calculated_downtime = Val(previous)
    /\ Text(downtime_final) = "2H"

\* "a - b", or the one that is not blank, or "" when both are blank
RangeOf(a, b) ==
    IF a # << >> /\ b # << >> THEN a \o Dash \o b
    ELSE IF a # << >> THEN a
    ELSE b

\* C8: the last bracket of the subject holds the date range, the time range
\* and "UTC+0", joined by ", " with the empty ones left out.  01/01/2024
\* 10:00 to 11:00 at offset +0 gives "01/01/2024 - 01/01/2024, 10:00 - 11:00,
\* UTC+0"; with neither instant resolvable the bracket holds "UTC+0" alone.
C8_SubjectBracket ==
    pc = "done" =>
        LET dt == Val(subject).dt
            dates == RangeOf(FmtDateUtc(start_utc), FmtDateUtc(end_utc))
            times == RangeOf(FmtTimeUtc(start_utc), FmtTimeUtc(end_utc))
        IN  /\ dt = (IF dates # << >> THEN dates \o CommaSpace ELSE << >>)
                    \o (IF times # << >> THEN times \o CommaSpace ELSE << >>)
                    \o UTC0
            /\ (start_date = Jan1 /\ end_date = Jan1 /\ Text(utc_single) = "+0"
                /\ Text(start_time) = "10:00" /\ Text(end_time) = "11:00")
                   => Text(dt) = "01/01/2024 - 01/01/2024, 10:00 - 11:00, UTC+0"
            /\ (start_utc = None /\ end_utc = None) => Text(dt) = "UTC+0"
            /\ (start_date = Jan1 /\ Text(start_time) = "10:00"
                /\ Text(utc_single) = "+0" /\ end_date = << >>)
                   => Text(dt) = "01/01/2024, 10:00, UTC+0"

\* The subject of the example was composed.
C8_Witness ==
    /\ pc = "done"
    /\ Text(utc_single) = "+0"
    /\ Text(Val(subject).dt) = "01/01/2024 - 01/01/2024, 10:00 - 11:00, UTC+0"

\* C9 as stated: the duration computed after the wraparound rule is never
\* negative.
C9_Stated ==
    (pc \in {"downtime", "compose", "done"} /\ calc_downtime_mins # None)
        => Val(calc_downtime_mins) >= 0

\* C9 amended: the duration computed after the wraparound rule is
\* non-negative when the end is at most 24 hours earlier than the start; when
\* it is more than 24 hours earlier the computed minute count is negative,
\* and humanize_minutes clamps it: the duration is rendered "0m", never with
\* a minus sign.
C9_ClampedWhenRendered ==
    [][ /\ (pc = "duration" /\ Resolved) =>
              LET s == Val(start_utc)
                  e == Val(end_utc)
              IN  /\ e >= s - 1440 => Val(calc_downtime_mins') >= 0
                  /\ e < s - 1440 => Val(calc_downtime_mins') < 0
        /\ (pc = "compose" /\ Resolved) =>
              /\ Head(calculated_downtime') # "-"
              /\ Val(calc_downtime_mins) < 0 =>
                     Text(calculated_downtime') = "0m"
        /\ (pc = "downtime" /\ Resolved /\ Strip(override_downtime) = << >>) =>
              /\ Head(downtime_final') # "-"
              /\ Val(calc_downtime_mins) < 0 => Text(downtime_final') = "0m"
      ]_vars

\* An end more than a day before the start was composed: the minute count is
\* negative and the rendered duration is "0m".
C9_Witness ==
    /\ pc = "done"
    /\ calc_downtime_mins # None /\ Val(calc_downtime_mins) < 0
    /\ Text(calculated_downtime) = "0m"

-----------------------------------------------------------------------------
(* Properties of humanize_minutes (SpecHumanize) *)

\* C10 as stated: h hours and m minutes, both non-zero, are rendered "XhYm";
\* hours alone "Xh"; otherwise "Ym", "0m" for zero.
C10_Stated ==
    (pc = "done" /\ mins # None /\ Val(mins) >= 0) =>
        LET h == Val(mins) \div 60
            m == Val(mins) % 60
        IN  Val(rendered) =
                IF h # 0 /\ m # 0 THEN NatToStr(h) \o <<"h">> \o NatToStr(m) \o <<"m">>
                ELSE IF h # 0 THEN NatToStr(h) \o <<"h">>
                ELSE NatToStr(m) \o <<"m">>

\* C10 amended: h hours and m minutes, both non-zero, are rendered "Xh Ym",
\* with one space between the two parts; hours alone "Xh"; otherwise "Ym",
\* "0m" for zero.  45 is "45m", 1380 is "23h", 65 is "1h 5m".
C10_HumanizeFormat ==
    (pc = "done" /\ mins # None /\ Val(mins) >= 0) =>
        LET h == Val(mins) \div 60
            m == Val(mins) % 60
        IN  /\ Val(rendered) =
                IF h # 0 /\ m # 0
                THEN NatToStr(h) \o <<"h", " ">> \o NatToStr(m) \o <<"m">>
                ELSE IF h # 0 THEN NatToStr(h) \o <<"h">>
                ELSE NatToStr(m) \o <<"m">>
            /\ Val(mins) = 45 => Text(Val(rendered)) = "45m"
            /\ Val(mins) = 1380 => Text(Val(rendered)) = "23h"
            /\ Val(mins) = 65 => Text(Val(rendered)) = "1h 5m"
            /\ Val(mins) = 0 => Text(Val(rendered)) = "0m"

\* 65 minutes were rendered "1h 5m".
C10_Witness ==
    /\ pc = "done"
    /\ mins = Some(65)
    /\ Text(Val(rendered)) = "1h 5m"

=============================================================================
